---------------------------- MODULE Spec2Model ----------------------------
(***************************************************************************)
(* Detection/distance fusion and ranking pipeline of MyYolo                *)
(* (src/src/main.py, with the earlier script src/gomi2.py).                *)
(*                                                                         *)
(* Four specifications share the variables below:                          *)
(*   SpecOrganize  DataOrganizer.organize_data, its padding loop step by   *)
(*                 step, over bounded lists of (label, distance) pairs;    *)
(*   SpecDistance  ObjectDetector.calculate_distance over sparse depth     *)
(*                 maps of the deployed 1280 x 720 size;                   *)
(*   SpecDetect    ObjectDetector.detect_objects over bounded lists of     *)
(*                 detections;                                             *)
(*   Spec          main(): start_streaming, the per-frame loop, the        *)
(*                 exceptions that can leave it, and the finally block.    *)
(***************************************************************************)
EXTENDS Integers, Sequences, FiniteSets, TLC

VARIABLES
    pc,                \* position of the modelled call / of main()
    detections,        \* result.xyxy[0]: the detector's boxes for the frame
    depth_image,       \* the frame's depth map (sparse: its non-zero samples)
    x,                 \* calculate_distance: argument x
    y,                 \* calculate_distance: argument y
    distance,          \* calculate_distance: returned value
    detected_objects,  \* list of <<label, distance>> pairs
    detected_data,     \* organize_data's dict, in insertion order
    streaming,         \* the RealSense pipeline is started and not stopped
    stop_calls,        \* number of stop_streaming() calls made
    sink,              \* records appended to out/output.json, in order
    seen,              \* complete frame pairs delivered so far, in order
    frames,            \* number of get_frames() calls made
    exc                \* the exception propagating out of the loop, or "none"

vars == <<pc, detections, depth_image, x, y, distance, detected_objects,
          detected_data, streaming, stop_calls, sink, seen, frames, exc>>

---------------------------------------------------------------------------
(* Program constants.                                                      *)

\* main.py:15  enable_stream(rs.stream.depth, 1280, 720, ...)
Width == 1280
Height == 720

\* main.py:39  self.range_value = 3
range_value == 3

\* main.py:38  self.rect_threshold = int(1280 / 8 * 720 / 8)
rect_threshold == (Width * Height) \div 64

\* main.py:82 / main.py:86  the slice [:3] and the bound of the padding loop
K == 3

---------------------------------------------------------------------------
(* Bounds of the model.                                                    *)

MaxObjs == 4        \* longest list handed to organize_data
MaxSamples == 2     \* most non-zero samples in a drawn depth map
MaxDets == 3        \* most detections in a drawn frame
MaxFrames == 3      \* most get_frames() calls of one run of main()

---------------------------------------------------------------------------
(* Sequence helpers.                                                       *)

Min(a, b) == IF a <= b THEN a ELSE b

SeqsUpTo(S, n) == UNION {[1..m -> S] : m \in 0..n}

---------------------------------------------------------------------------
(* DataOrganizer.organize_data (main.py:80-89).                            *)

\* The value a key maps to: the string "NA", or metres with two decimals,
\* held as a whole number of centimetres.
NAValue == [na |-> TRUE, cm |-> 0]
Metres(c) == [na |-> FALSE, cm |-> c]

\* round(d / 1000, 2) for a distance d in millimetres, as centimetres.
\* Exact for every d that is not an odd multiple of 5 (there Python rounds
\* the binary float, to either side); the distances drawn avoid those.
Round2(d) == (d + 5) \div 10

\* dict[k] = v: an existing key keeps its position and takes the new value,
\* a new key is appended.
DictSet(d, k, v) ==
    IF \E i \in 1..Len(d) : d[i][1] = k
    THEN [i \in 1..Len(d) |-> IF d[i][1] = k THEN <<k, v>> ELSE d[i]]
    ELSE Append(d, <<k, v>>)

Keys(d) == {d[i][1] : i \in 1..Len(d)}

\* sorted(objs, key=lambda x: x[1]): stable, ascending by distance.
\* Insert e behind every element whose distance is <= e's.
InsertByDistance(s, e) ==
    LET n == Cardinality({i \in 1..Len(s) : s[i][2] <= e[2]})
    IN  SubSeq(s, 1, n) \o <<e>> \o SubSeq(s, n + 1, Len(s))

RECURSIVE sorted(_)
sorted(objs) ==
    IF objs = <<>> THEN <<>>
    ELSE InsertByDistance(sorted(SubSeq(objs, 1, Len(objs) - 1)),
                          objs[Len(objs)])

\* s[:3]
TopK_4(s) == SubSeq(s, 1, Min(K + 1, Len(s)))
TopK(s) == SubSeq(s, 1, Min(K, Len(s)))

\* obj -> value of line 83: round(obj[1] / 1000, 2) if obj[1] != 0 else "NA"
EntryValue(obj) == IF obj[2] # 0 THEN Metres(Round2(obj[2])) ELSE NAValue

\* The for loop of lines 81-83 over the first i taken objects.
RECURSIVE FillFrom(_, _)
FillFrom(taken, i) ==
    IF i = 0 THEN <<>>
    ELSE DictSet(FillFrom(taken, i - 1), taken[i][1], EntryValue(taken[i]))

RankedEntries(objs) ==
    LET taken == TopK(sorted(objs)) IN FillFrom(taken, Len(taken))

\* f"NA_{len(detected_data)}"
NAKey(n) ==
    CASE n = 0 -> "NA_0"
      [] n = 1 -> "NA_1"
      [] n = 2 -> "NA_2"
      [] OTHER -> "NA_3"

\* One iteration of the while loop of lines 86-87.
PadStep(d) == DictSet(d, NAKey(Len(d)), NAValue)

\* The whole while loop; it has no value (it does not return) when an
\* iteration leaves the dict as it was.
RECURSIVE Pad(_)
Pad(d) == IF Len(d) < K THEN Pad(PadStep(d)) ELSE d

organize_data(objs) == Pad(RankedEntries(objs))

---------------------------------------------------------------------------
(* Inputs of organize_data.                                                *)

\* Labels a detector can report, and labels shaped like a placeholder key.
RealLabels == {"chair", "person", "NA"}
PlaceholderLabels == {"NA_1", "NA_2"}
Labels == RealLabels \cup PlaceholderLabels

\* Distances in millimetres; 0 is the invalid distance.
Distances == {0, 100, 500}

FusedObjects == Labels \X Distances

\* main() has not run: the state of the camera and of the sink.
MainIdle ==
    /\ streaming = FALSE
    /\ stop_calls = 0
    /\ sink = <<>>
    /\ seen = <<>>
    /\ frames = 0
    /\ exc = "none"

InitOrganize ==
    /\ pc = "organize"
    /\ detected_objects \in SeqsUpTo(FusedObjects, MaxObjs)
    /\ detected_data = <<>>
    /\ detections = <<>>
    /\ depth_image = {}
    /\ x = 0
    /\ y = 0
    /\ distance = 0
    /\ MainIdle

\* Lines 81-83: sort, take three, fill the dict.
OrganizeRank ==
    /\ pc = "organize"
    /\ detected_data' = RankedEntries(detected_objects)
    /\ pc' = "pad"
    /\ UNCHANGED <<detections, depth_image, x, y, distance, detected_objects,
                   streaming, stop_calls, sink, seen, frames, exc>>

\* Lines 86-87: one iteration of the padding loop.
OrganizePad ==
    /\ pc = "pad"
    /\ Len(detected_data) < K
    /\ detected_data' = PadStep(detected_data)
    /\ UNCHANGED <<pc, detections, depth_image, x, y, distance,
                   detected_objects, streaming, stop_calls, sink, seen,
                   frames, exc>>

\* Line 89: return detected_data.
OrganizeReturn ==
    /\ pc = "pad"
    /\ ~(Len(detected_data) < K)
    /\ pc' = "returned"
    /\ UNCHANGED <<detections, depth_image, x, y, distance, detected_objects,
                   detected_data, streaming, stop_calls, sink, seen, frames,
                   exc>>

NextOrganize == OrganizeRank \/ OrganizePad \/ OrganizeReturn

SpecOrganize == InitOrganize /\ [][NextOrganize]_vars


\* predict() of gomi2.py, lines 62-66: the three nearest are taken first and
\* the invalid ones among them are left out afterwards.
formatted_objects(objs) ==
    LET taken == TopK(sorted(objs))
        kept == SelectSeq(taken, LAMBDA o : o[2] # 0)
    IN  [i \in 1..Len(kept) |-> <<kept[i][1], Round2(kept[i][2])>>]

---------------------------------------------------------------------------
(* Properties of organize_data.                                            *)

ValidIdx(objs) == {i \in 1..Len(objs) : objs[i][2] # 0}

DistinctLabels(objs) ==
    \A i, j \in 1..Len(objs) : i # j => objs[i][1] # objs[j][1]

OnlyRealLabels(objs) == \A i \in 1..Len(objs) : objs[i][1] \in RealLabels

\* Position in objs of the object labelled k (labels distinct).
IndexOf(objs, k) == CHOOSE i \in 1..Len(objs) : objs[i][1] = k

\* C1: whenever organize_data returns, the record has exactly K = 3 entries
\* with pairwise distinct keys, for lists of any length, with any mix of
\* valid and invalid distances and with repeated labels; and for lists whose
\* labels are not shaped like placeholder keys every iteration of the padding
\* loop adds a fresh key, so the call does return.
C1_ExactlyK ==
    /\ pc = "returned" =>
          /\ Len(detected_data) = K
          /\ Cardinality(Keys(detected_data)) = K
    /\ (pc = "pad" /\ Len(detected_data) < K
            /\ OnlyRealLabels(detected_objects)) =>
          NAKey(Len(detected_data)) \notin Keys(detected_data)

C1_Witness ==
    /\ pc = "returned"
    /\ Len(detected_objects) > K
    /\ ~DistinctLabels(detected_objects)
    /\ \E i \in 1..Len(detected_objects) : detected_objects[i][2] = 0
    /\ ValidIdx(detected_objects) # {}
    /\ Len(detected_data) = K

\* C2: an object with invalid distance (0) is dropped before ranking: its
\* label is no key of the returned record, and with n valid objects of
\* distinct labels the record holds Min(n, 3) of them whatever invalid
\* objects the list also holds (main.py's record and gomi2.py's list alike).
C2_InvalidDropped ==
    (pc = "returned" /\ OnlyRealLabels(detected_objects)
        /\ DistinctLabels(detected_objects)) =>
       LET objs == detected_objects
           n == Cardinality(ValidIdx(objs))
       IN  /\ \A i \in 1..Len(objs) :
                 objs[i][2] = 0 => objs[i][1] \notin Keys(detected_data)
           /\ Cardinality({i \in ValidIdx(objs) :
                             objs[i][1] \in Keys(detected_data)}) = Min(n, K)
           /\ Len(formatted_objects(objs)) = Min(n, K)

\* C3: for distinct labels the real-label entries of the record are in
\* ascending order of distance, equal distances in detection order; and for
\* chair 500 mm, person 100 mm and an invalid third object the record is
\* person 0.10, chair 0.50 and a placeholder in the third slot.
C3_RankedAscending ==
    (pc = "returned" /\ OnlyRealLabels(detected_objects)
        /\ DistinctLabels(detected_objects)) =>
       LET objs == detected_objects
           real == {i \in 1..Len(detected_data) :
                      detected_data[i][1] \in {objs[j][1] : j \in 1..Len(objs)}}
           src(i) == IndexOf(objs, detected_data[i][1])
       IN  /\ \A i, j \in real :
                 i < j =>
                    \/ objs[src(i)][2] < objs[src(j)][2]
                    \/ /\ objs[src(i)][2] = objs[src(j)][2]
                       /\ src(i) < src(j)
           /\ objs = <<<<"chair", 500>>, <<"person", 100>>, <<"NA", 0>>>> =>
                 detected_data = <<<<"person", Metres(10)>>,
                                   <<"chair", Metres(50)>>,
                                   <<"NA_2", NAValue>>>>

\* C4: with no valid object the record is NA_0, NA_1, NA_2 -> "NA"; with
\* n < 3 valid objects of distinct labels it is those n entries followed by
\* 3 - n placeholders.
C4_PaddedWithPlaceholders ==
    (pc = "returned" /\ OnlyRealLabels(detected_objects)
        /\ DistinctLabels(detected_objects)) =>
       LET objs == detected_objects
           n == Cardinality(ValidIdx(objs))
       IN  n < K =>
              /\ Len(detected_data) = K
              /\ \A i \in 1..n :
                    /\ \E j \in ValidIdx(objs) : objs[j][1] = detected_data[i][1]
                    /\ ~detected_data[i][2].na
              /\ \A i \in (n + 1)..K :
                    detected_data[i] = <<NAKey(i - 1), NAValue>>

\* C10: every placeholder key the padding loop is about to add differs from
\* every key already in the record, for labels of any form, so every
\* iteration grows the record and the loop ends after at most K iterations.
C10_PlaceholderFresh ==
    (pc = "pad" /\ Len(detected_data) < K) =>
       NAKey(Len(detected_data)) \notin Keys(detected_data)

---------------------------------------------------------------------------
(* ObjectDetector.calculate_distance (main.py:42-49).                      *)
(*                                                                         *)
(* A depth map is held by its non-zero samples [px, py, v]; every other    *)
(* pixel of the Width x Height grid reads 0.                               *)

\* A slice bound i of a[i:j] on an axis of length n: a negative bound counts
\* from the end, and the result is clamped to 0..n.
SliceIndex(i, n) ==
    IF i < 0 THEN (IF i + n < 0 THEN 0 ELSE i + n)
    ELSE IF i > n THEN n ELSE i

\* The indices a[start:stop] selects on an axis of length n.
SliceRange(start, stop, n) == SliceIndex(start, n)..(SliceIndex(stop, n) - 1)

RECURSIVE SumOf(_)
SumOf(samples) ==
    IF samples = {} THEN 0
    ELSE LET s == CHOOSE t \in samples : TRUE
         IN  s.v + SumOf(samples \ {s})

\* np.mean of the selected samples; the sample values drawn make it a whole
\* number for up to three samples.
Mean(samples) == SumOf(samples) \div Cardinality(samples)

calculate_distance(depth, cx, cy) ==
    LET rows == SliceRange(cy - range_value, cy + range_value + 1, Height)
        cols == SliceRange(cx - range_value, cx + range_value + 1, Width)
        distances == {s \in depth : s.py \in rows /\ s.px \in cols}
    IN  IF distances # {} THEN Mean(distances) ELSE 0

\* Pixels at which a drawn depth map may hold a sample, and drawn centers:
\* next to the top and left borders, in the interior, and next to the bottom
\* and right borders.
SampleXs == {0, 2, 100, 104, 1279}
SampleYs == {1, 100, 103, 719}
CenterXs == {1, 3, 100, 1278}
CenterYs == {2, 3, 100, 718}
SampleValues == {400, 1000}

Samples == [px : SampleXs, py : SampleYs, v : SampleValues]

\* No two samples of a map at the same pixel.
IsDepthMap(m) ==
    \A s, t \in m : (s.px = t.px /\ s.py = t.py) => s = t

RECURSIVE SubsetsUpTo(_, _)
SubsetsUpTo(S, n) ==
    IF n = 0 THEN {{}}
    ELSE LET smaller == SubsetsUpTo(S, n - 1)
         IN  smaller \cup {m \cup {s} : m \in smaller, s \in S}

DepthMaps == {m \in SubsetsUpTo(Samples, MaxSamples) : IsDepthMap(m)}

InitDistance ==
    /\ pc = "calculate"
    /\ depth_image \in DepthMaps
    /\ x \in CenterXs
    /\ y \in CenterYs
    /\ distance = 0
    /\ detections = <<>>
    /\ detected_objects = <<>>
    /\ detected_data = <<>>
    /\ MainIdle

CalculateDistance ==
    /\ pc = "calculate"
    /\ distance' = calculate_distance(depth_image, x, y)
    /\ pc' = "returned"
    /\ UNCHANGED <<detections, depth_image, x, y, detected_objects,
                   detected_data, streaming, stop_calls, sink, seen, frames,
                   exc>>

NextDistance == CalculateDistance

SpecDistance == InitDistance /\ [][NextDistance]_vars

\* The samples of the (2 * range_value + 1)-sided square around the center,
\* clipped to the map.
Neighbourhood(depth, cx, cy) ==
    {s \in depth : /\ cx - range_value <= s.px /\ s.px <= cx + range_value
                   /\ cy - range_value <= s.py /\ s.py <= cy + range_value
                   /\ 0 <= s.px /\ s.px < Width
                   /\ 0 <= s.py /\ s.py < Height}

\* C5: calculate_distance returns a distance (not 0) if and only if the
\* clipped neighbourhood of the center holds a non-zero sample, for every
\* center, also one closer than range_value pixels to the top or left border.
C5_ValidIffSampleInRange ==
    pc = "returned" =>
       (distance # 0 <=> Neighbourhood(depth_image, x, y) # {})

---------------------------------------------------------------------------
(* ObjectDetector.detect_objects (main.py:52-68).                          *)
(*                                                                         *)
(* A detection is a row of result.xyxy[0]: the box corners and the label   *)
(* result.names gives its class.                                           *)

Area(det) == (det.x2 - det.x1) * (det.y2 - det.y1)

\* Lines 59-62: the detection is skipped.
TooSmall_le(det) == Area(det) <= rect_threshold
TooSmall(det) == Area(det) < rect_threshold

\* Lines 64-66: int() of the center of the box, handed to calculate_distance.
CenterX(det) == (det.x1 + det.x2) \div 2
CenterY(det) == (det.y1 + det.y2) \div 2

\* The loop of lines 58-67 over the first i detections.
RECURSIVE DetectFrom(_, _, _)
DetectFrom(dets, depth, i) ==
    IF i = 0 THEN <<>>
    ELSE LET before == DetectFrom(dets, depth, i - 1)
         IN  IF TooSmall(dets[i]) THEN before
             ELSE Append(before,
                         <<dets[i].label,
                           calculate_distance(depth, CenterX(dets[i]),
                                              CenterY(dets[i]))>>)

detect_objects(dets, depth) == DetectFrom(dets, depth, Len(dets))

\* Drawn boxes: area equal to rect_threshold (120 x 120), just below it,
\* just above it, and the whole frame; drawn depth maps: with and without a
\* sample at the centers (100, 100) and (640, 360).
Boxes ==
    { [x1 |-> 40, y1 |-> 40, x2 |-> 160, y2 |-> 160],
      [x1 |-> 40, y1 |-> 40, x2 |-> 160, y2 |-> 159],
      [x1 |-> 40, y1 |-> 40, x2 |-> 161, y2 |-> 160],
      [x1 |-> 0, y1 |-> 0, x2 |-> 1280, y2 |-> 720] }

DetLabels == {"chair", "person"}

Detections ==
    {[x1 |-> b.x1, y1 |-> b.y1, x2 |-> b.x2, y2 |-> b.y2, label |-> l] :
        b \in Boxes, l \in DetLabels}

SceneMaps ==
    SUBSET { [px |-> 100, py |-> 100, v |-> 1000],
             [px |-> 640, py |-> 360, v |-> 400] }

InitDetect ==
    /\ pc = "detect"
    /\ detections \in SeqsUpTo(Detections, MaxDets)
    /\ depth_image \in SceneMaps
    /\ x = 0
    /\ y = 0
    /\ distance = 0
    /\ detected_objects = <<>>
    /\ detected_data = <<>>
    /\ MainIdle

DetectObjects ==
    /\ pc = "detect"
    /\ detected_objects' = detect_objects(detections, depth_image)
    /\ pc' = "returned"
    /\ UNCHANGED <<detections, depth_image, x, y, distance, detected_data,
                   streaming, stop_calls, sink, seen, frames, exc>>

NextDetect == DetectObjects

SpecDetect == InitDetect /\ [][NextDetect]_vars

\* The detections whose area reaches the threshold, and the place of the
\* i-th detection among them.
Retained(dets) == {i \in 1..Len(dets) : Area(dets[i]) >= rect_threshold}
RankIn(dets, i) == Cardinality({j \in Retained(dets) : j <= i})

\* C6: detect_objects emits one (label, distance) object per detection whose
\* area is >= rect_threshold and none for the others, in detection order,
\* also when the sampled distance is invalid (0).
C6_FilterByArea ==
    pc = "returned" =>
       /\ Len(detected_objects) = Cardinality(Retained(detections))
       /\ \A i \in Retained(detections) :
             detected_objects[RankIn(detections, i)] =
                <<detections[i].label,
                  calculate_distance(depth_image, CenterX(detections[i]),
                                     CenterY(detections[i]))>>

C6_Witness ==
    /\ pc = "returned"
    /\ \E i \in 1..Len(detections) : Area(detections[i]) = rect_threshold
    /\ \E i \in 1..Len(detections) : Area(detections[i]) < rect_threshold
    /\ \E i \in 1..Len(detected_objects) : detected_objects[i][2] = 0
    /\ \E i \in 1..Len(detected_objects) : detected_objects[i][2] # 0
    /\ Len(detected_objects) = 2

---------------------------------------------------------------------------
(* main() (main.py:128-160).                                               *)

\* Line 144: if not depth_frame or not color_frame: continue
FramePairMissing_and(depth_ok, color_ok) == ~depth_ok /\ ~color_ok
FramePairMissing(depth_ok, color_ok) == ~depth_ok \/ ~color_ok

\* DataOrganizer.send_data, lines 92-98: the record is serialized in key
\* order and appended to the output file as one line.
send_data_none(out, data) == out
send_data(out, data) == Append(out, data)

\* Lines 141 and 159: an exception raised inside the try block runs the
\* finally block on its way out of main().
OnException_exit == "exited"
OnException == "finally"

\* What a frame pair can show: the detector's boxes and the depth map.
Scenes ==
    { [detections |-> <<>>, depth |-> {}],
      [detections |-> <<[x1 |-> 40, y1 |-> 40, x2 |-> 160, y2 |-> 160,
                         label |-> "chair"]>>,
       depth |-> {[px |-> 100, py |-> 100, v |-> 1000]}],
      [detections |-> <<[x1 |-> 0, y1 |-> 0, x2 |-> 1280, y2 |-> 720,
                         label |-> "person"],
                        [x1 |-> 40, y1 |-> 40, x2 |-> 160, y2 |-> 159,
                         label |-> "cup"],
                        [x1 |-> 40, y1 |-> 40, x2 |-> 161, y2 |-> 160,
                         label |-> "chair"]>>,
       depth |-> {[px |-> 100, py |-> 100, v |-> 400]}] }

\* Positions inside the try block, and the exception each can raise; the
\* stop request (KeyboardInterrupt) can arrive at any of them.
LoopPositions == {"loop", "detect", "organize", "send", "display"}

RaisedAt(p) ==
    CASE p = "loop" -> {"frame_source", "interrupt"}
      [] p = "detect" -> {"detector", "interrupt"}
      [] p = "organize" -> {"interrupt"}
      [] p = "send" -> {"sink", "interrupt"}
      [] p = "display" -> {"display", "interrupt"}

Init ==
    /\ pc = "start"
    /\ detections = <<>>
    /\ depth_image = {}
    /\ x = 0
    /\ y = 0
    /\ distance = 0
    /\ detected_objects = <<>>
    /\ detected_data = <<>>
    /\ MainIdle

\* Line 140: realsense_manager.start_streaming()
StartStreaming ==
    /\ pc = "start"
    /\ streaming' = TRUE
    /\ pc' = "loop"
    /\ UNCHANGED <<detections, depth_image, x, y, distance, detected_objects,
                   detected_data, stop_calls, sink, seen, frames, exc>>

\* Line 140 raises (no camera): main() is left before the try block.
StartFails ==
    /\ pc = "start"
    /\ exc' = "start"
    /\ pc' = "exited"
    /\ UNCHANGED <<detections, depth_image, x, y, distance, detected_objects,
                   detected_data, streaming, stop_calls, sink, seen, frames>>

\* Lines 143-147: wait for the next pair; skip the iteration when a frame is
\* missing.
GetFrames ==
    /\ pc = "loop"
    /\ frames < MaxFrames
    /\ \E depth_ok, color_ok \in BOOLEAN, scene \in Scenes :
          /\ frames' = frames + 1
          /\ seen' = IF depth_ok /\ color_ok THEN Append(seen, scene) ELSE seen
          /\ IF FramePairMissing(depth_ok, color_ok)
             THEN /\ pc' = "loop"
                  /\ UNCHANGED <<detections, depth_image>>
             ELSE /\ pc' = "detect"
                  /\ detections' = scene.detections
                  /\ depth_image' = scene.depth
    /\ UNCHANGED <<x, y, distance, detected_objects, detected_data, streaming,
                   stop_calls, sink, exc>>

\* Lines 151-153.
Detect ==
    /\ pc = "detect"
    /\ detected_objects' = detect_objects(detections, depth_image)
    /\ pc' = "organize"
    /\ UNCHANGED <<detections, depth_image, x, y, distance, detected_data,
                   streaming, stop_calls, sink, seen, frames, exc>>

\* Line 155.
Organize ==
    /\ pc = "organize"
    /\ detected_data' = organize_data(detected_objects)
    /\ pc' = "send"
    /\ UNCHANGED <<detections, depth_image, x, y, distance, detected_objects,
                   streaming, stop_calls, sink, seen, frames, exc>>

\* Line 156.
SendData ==
    /\ pc = "send"
    /\ sink' = send_data(sink, detected_data)
    /\ pc' = "display"
    /\ UNCHANGED <<detections, depth_image, x, y, distance, detected_objects,
                   detected_data, streaming, stop_calls, seen, frames, exc>>

\* Line 158, then back to the top of the loop.
Display ==
    /\ pc = "display"
    /\ pc' = "loop"
    /\ UNCHANGED <<detections, depth_image, x, y, distance, detected_objects,
                   detected_data, streaming, stop_calls, sink, seen, frames,
                   exc>>

\* An exception raised inside the try block: nothing in the loop catches it.
Raise ==
    /\ pc \in LoopPositions
    /\ \E e \in RaisedAt(pc) : exc' = e
    /\ pc' = OnException
    /\ UNCHANGED <<detections, depth_image, x, y, distance, detected_objects,
                   detected_data, streaming, stop_calls, sink, seen, frames>>

\* Lines 159-160: finally: realsense_manager.stop_streaming(); the exception
\* then leaves main().
StopStreaming ==
    /\ pc = "finally"
    /\ streaming' = FALSE
    /\ stop_calls' = stop_calls + 1
    /\ pc' = "exited"
    /\ UNCHANGED <<detections, depth_image, x, y, distance, detected_objects,
                   detected_data, sink, seen, frames, exc>>

Next ==
    \/ StartStreaming
    \/ StartFails
    \/ GetFrames
    \/ Detect
    \/ Organize
    \/ SendData
    \/ Display
    \/ Raise
    \/ StopStreaming

Spec == Init /\ [][Next]_vars

RecordOf(scene) ==
    organize_data(detect_objects(scene.detections, scene.depth))

\* C7: an iteration with a missing frame emits no record; an iteration with
\* both frames appends exactly one record before the next pair is requested.
\* Whenever the loop is about to request a pair, the sink holds one record
\* per complete pair seen, in frame order; in between it is at most one
\* record behind.
C7_OneRecordPerCompletePair ==
    /\ pc = "loop" =>
          /\ Len(sink) = Len(seen)
          /\ \A i \in 1..Len(seen) : sink[i] = RecordOf(seen[i])
    /\ Len(sink) <= Len(seen)
    /\ Len(seen) <= Len(sink) + 1
    /\ Len(seen) <= frames

C7_Witness ==
    /\ pc = "loop"
    /\ frames = 3
    /\ Len(seen) = 2
    /\ Len(sink) = 2
    /\ sink[1] # sink[2]

\* C8: once the stream is started it runs during the whole loop, and every
\* way out of the loop (the stop request or an exception of any step) goes
\* through exactly one stop_streaming call before main() is left.
C8_StreamReleased ==
    /\ pc \in LoopPositions => (streaming /\ stop_calls = 0 /\ exc = "none")
    /\ (exc # "none" /\ exc # "start") => pc \in {"finally", "exited"}
    /\ pc = "finally" => (streaming /\ stop_calls = 0)
    /\ (pc = "exited" /\ exc # "start") => (~streaming /\ stop_calls = 1)

C8_Witness ==
    /\ pc = "exited"
    /\ exc = "interrupt"
    /\ stop_calls = 1
    /\ ~streaming
    /\ Len(sink) = 1

\* C9: a failure of the sink in send_data costs that frame's record only:
\* main() is not left because of it.
C9_SinkFailureRecoverable ==
    pc = "exited" => exc # "sink"

=============================================================================
